---- MODULE Spec2Model ----
(***************************************************************************)
(* The query layer of the employee dashboard: database.py (the five query  *)
(* operations over the department, employee and salary relations that      *)
(* init_db.py declares) and the top-earners selection of app.py.           *)
(*                                                                         *)
(* A nullable SQL value is a sequence: <<>> is NULL and <<v>> is the value *)
(* v.  Money is a whole number of currency units; a value that went        *)
(* through ROUND(x, 2) is held in hundredths.  The text columns that no    *)
(* query computes with (first_name, last_name, email, hire_date,           *)
(* effective_date) are projected through unchanged and are left out.       *)
(***************************************************************************)
EXTENDS Integers, Sequences, FiniteSets, TLC

VARIABLES
    dbFile,      \* employee_database.db: "missing", "empty" (no tables), "ready"
    department,  \* department_id -> [department_name, location]
    employee,    \* employee_id -> [department_id]
    salary,      \* salary_id -> [employee_id, base_salary, bonus]
    openConns,   \* connections opened by finished calls and not closed by them
    call         \* the last finished call and what it returned

relations == <<department, employee, salary>>
vars == <<dbFile, department, employee, salary, openConns, call>>

(***************************************************************************)
(* Bounds of the model and the domains the relations are drawn from.       *)
(***************************************************************************)
MaxSal == 2
MaxLeaked == 2

\* the number of top earners show_analytics selects
TopN == 5

DepartmentIds == 1..2
DepartmentNames == {"Engineering", "Sales"}
Locations == {"New York"}
EmployeeIds == 1..2

NULL == <<>>
Some(v) == <<v>>
IsNull(x) == x = NULL
Val(x) == x[1]

\* the (base_salary, bonus) pairs of the salary records: a bonus of NULL, two
\* pairs of equal total, and a greater total
Compensations ==
    {[base_salary |-> 1, bonus |-> NULL],
     [base_salary |-> 1, bonus |-> Some(1)],
     [base_salary |-> 2, bonus |-> Some(0)],
     [base_salary |-> 2, bonus |-> Some(1)]}

(***************************************************************************)
(* The schema of init_db.py.  Each identity column is an INTEGER PRIMARY   *)
(* KEY, so a relation is a function of its identity.  department_name is   *)
(* NOT NULL but not UNIQUE.  employee.department_id is nullable,           *)
(* salary.employee_id and base_salary are NOT NULL, bonus has a default    *)
(* but may hold NULL.  sqlite3 does not enforce the FOREIGN KEY clauses    *)
(* unless asked to, so a reference may name a row that does not exist.     *)
(***************************************************************************)
\* (department names are interchangeable: the first department's is fixed)
DepartmentTables ==
    {t \in UNION {[1..k -> [department_name : DepartmentNames, location : Locations]] :
                  k \in 0..Cardinality(DepartmentIds)} :
        DOMAIN t = {} \/ t[1].department_name = "Engineering"}

EmployeeTables ==
    UNION {[1..m -> [department_id : {NULL} \cup {Some(d) : d \in DepartmentIds}]] :
           m \in 0..Cardinality(EmployeeIds)}

\* a salary table of more records than the top-earners selection keeps, the
\* records around the cut of equal total
PayrollTable ==
    [s \in 1..(TopN + 1) |-> [employee_id |-> 1 + (s % 2),
                     base_salary |-> IF s <= 2 THEN 2 ELSE 1,
                     bonus |-> Some(1)]]

SalaryTables ==
    UNION {[1..n -> {[employee_id |-> e, base_salary |-> c.base_salary, bonus |-> c.bonus] :
                        e \in EmployeeIds, c \in Compensations}] : n \in 0..MaxSal}
    \cup {PayrollTable}

NoTable == [x \in {} |-> x]

(***************************************************************************)
(* SQL expressions.                                                        *)
(***************************************************************************)
\* a + b: NULL when either operand is NULL
Add(a, b) == IF IsNull(a) \/ IsNull(b) THEN NULL ELSE Some(Val(a) + Val(b))

\* s.base_salary + s.bonus of salary record s
TotalCompensation(s) == Add(Some(salary[s].base_salary), salary[s].bonus)

\* ROUND(num/den, 2) in hundredths, for num >= 0 and den > 0
Round2(num, den) == (200 * num + den) \div (2 * den)

\* the place of a nullable number under ORDER BY ... DESC: NULL is below every value
Rank(x) == IF IsNull(x) THEN 0 - 1 ELSE Val(x)

RECURSIVE SumOver(_, _)
SumOver(rows, f) ==
    IF rows = {} THEN 0
    ELSE LET r == CHOOSE x \in rows : TRUE
         IN  f[r] + SumOver(rows \ {r}, f)

\* The orders ORDER BY <key> DESC may return the rows in: any order that is
\* non-increasing in the key.  SQL leaves the order of rows with equal keys
\* undefined, and none of the queries names a second key.
RECURSIVE OrdersDesc(_, _)
OrdersDesc(rows, key) ==
    IF rows = {} THEN {<<>>}
    ELSE UNION {{<<r>> \o t : t \in OrdersDesc(rows \ {r}, key)} :
                r \in {x \in rows : \A y \in rows : key[x] >= key[y]}}

\* The orders a query with no ORDER BY may return its rows in.
AnyOrder(rows) == OrdersDesc(rows, [r \in rows |-> 0])

(***************************************************************************)
(* Joins.  A joined row names the records it was built from.               *)
(***************************************************************************)
\* FROM department d JOIN employee e ...: the join that drops a department
\* no employee references
DepartmentEmployeeJoin_InnerJoin ==
    UNION {{[d |-> d, e |-> Some(e)] : e \in
               {x \in DOMAIN employee : employee[x].department_id = Some(d)}} :
           d \in DOMAIN department}

\* FROM department d LEFT JOIN employee e ON d.department_id = e.department_id
DepartmentEmployeeJoin ==
    UNION {IF \E e \in DOMAIN employee : employee[e].department_id = Some(d)
           THEN {[d |-> d, e |-> Some(e)] : e \in
                    {x \in DOMAIN employee : employee[x].department_id = Some(d)}}
           ELSE {[d |-> d, e |-> NULL]} :
           d \in DOMAIN department}

\* ... LEFT JOIN salary s ON e.employee_id = s.employee_id
DepartmentEmployeeSalaryJoin ==
    UNION {IF \E s \in DOMAIN salary : Some(salary[s].employee_id) = r.e
           THEN {[d |-> r.d, e |-> r.e, s |-> Some(s)] : s \in
                    {x \in DOMAIN salary : Some(salary[x].employee_id) = r.e}}
           ELSE {[d |-> r.d, e |-> r.e, s |-> NULL]} :
           r \in DepartmentEmployeeJoin}

\* the department columns of employee e, NULL when the LEFT JOIN finds no department
DepartmentNameOf(e) ==
    IF \E d \in DOMAIN department : employee[e].department_id = Some(d)
    THEN Some(department[Val(employee[e].department_id)].department_name)
    ELSE NULL

LocationOf(e) ==
    IF \E d \in DOMAIN department : employee[e].department_id = Some(d)
    THEN Some(department[Val(employee[e].department_id)].location)
    ELSE NULL

\* FROM salary s JOIN employee e, the ON condition lost: every salary record
\* with every employee
SalaryEmployeeJoin_CrossJoin ==
    {[s |-> p[1], e |-> Some(p[2])] : p \in (DOMAIN salary) \X (DOMAIN employee)}

\* FROM salary s JOIN employee e ON s.employee_id = e.employee_id
SalaryEmployeeJoin ==
    {[s |-> p[1], e |-> Some(p[2])] : p \in
        {q \in (DOMAIN salary) \X (DOMAIN employee) : salary[q[1]].employee_id = q[2]}}

\* FROM employee e JOIN salary s ... WHERE e.employee_id = ?: the join that
\* drops an employee with no salary record
EmployeeSalaryJoin_InnerJoin(employee_id) ==
    {[e |-> p[1], s |-> Some(p[2])] : p \in
        {q \in (DOMAIN employee) \X (DOMAIN salary) :
            q[1] = employee_id /\ salary[q[2]].employee_id = q[1]}}

\* FROM employee e LEFT JOIN salary s ON e.employee_id = s.employee_id
\* WHERE e.employee_id = ?
EmployeeSalaryJoin(employee_id) ==
    UNION {IF \E s \in DOMAIN salary : salary[s].employee_id = e
           THEN {[e |-> e, s |-> Some(s)] : s \in
                    {x \in DOMAIN salary : salary[x].employee_id = e}}
           ELSE {[e |-> e, s |-> NULL]} :
           e \in {x \in DOMAIN employee : x = employee_id}}

(***************************************************************************)
(* The result rows of each query, before ordering.                         *)
(***************************************************************************)
\* get_all_employees
EmployeeRows ==
    {[employee_id |-> e,
      department_name |-> DepartmentNameOf(e),
      location |-> LocationOf(e)] : e \in DOMAIN employee}

\* get_all_salaries; salary_id is the identity of the salary record the row was
\* joined from, kept to tell apart rows whose selected columns are equal
SalaryRows ==
    {[salary_id |-> r.s,
      employee_id |-> Val(r.e),
      base_salary |-> salary[r.s].base_salary,
      bonus |-> salary[r.s].bonus,
      total_compensation |-> TotalCompensation(r.s),
      department_name |-> DepartmentNameOf(Val(r.e))] : r \in SalaryEmployeeJoin}

\* COUNT(e.employee_id) over a group of joined rows: the rows whose employee is not NULL
CountEmployeeId(group) == Cardinality({r \in group : ~IsNull(r.e)})

\* get_all_departments: GROUP BY d.department_id, d.department_name, d.location
DepartmentRows ==
    LET KeyOf(r) == <<r.d, department[r.d].department_name, department[r.d].location>>
        Keys == {KeyOf(r) : r \in DepartmentEmployeeJoin}
        Group(k) == {r \in DepartmentEmployeeJoin : KeyOf(r) = k}
    IN  {[department_id |-> k[1],
          department_name |-> k[2],
          location |-> k[3],
          employee_count |-> CountEmployeeId(Group(k))] : k \in Keys}

\* get_department_salary_stats: GROUP BY d.department_name.  An aggregate of
\* s.base_salary + s.bonus ranges over the joined rows where it is not NULL
\* and is NULL when there is none.
DepartmentStatsRows ==
    LET J == DepartmentEmployeeSalaryJoin
        Comp(r) == IF IsNull(r.s) THEN NULL ELSE TotalCompensation(Val(r.s))
        Keys == {department[r.d].department_name : r \in J}
        Group(k) == {r \in J : department[r.d].department_name = k}
        Valued(k) == {r \in Group(k) : ~IsNull(Comp(r))}
        Sum(k) == SumOver(Valued(k), [r \in Valued(k) |-> Val(Comp(r))])
        Min(k) == CHOOSE v \in {Val(Comp(r)) : r \in Valued(k)} :
                      \A r \in Valued(k) : v <= Val(Comp(r))
        Max(k) == CHOOSE v \in {Val(Comp(r)) : r \in Valued(k)} :
                      \A r \in Valued(k) : v >= Val(Comp(r))
        Agg(k, x) == IF Valued(k) = {} THEN NULL ELSE Some(x)
    IN  {[department_name |-> k,
          employee_count |-> CountEmployeeId(Group(k)),
          avg_total_compensation |->
              IF Valued(k) = {} THEN NULL
              ELSE Some(Round2(Sum(k), Cardinality(Valued(k)))),
          total_compensation |->
              IF Valued(k) = {} THEN NULL ELSE Some(Round2(Sum(k), 1)),
          min_compensation |->
              IF Valued(k) = {} THEN NULL ELSE Some(Round2(Min(k), 1)),
          max_compensation |->
              IF Valued(k) = {} THEN NULL ELSE Some(Round2(Max(k), 1))] : k \in Keys}

\* get_employee_by_id
EmployeeDetailRows(employee_id) ==
    {[employee_id |-> r.e,
      department_name |-> DepartmentNameOf(r.e),
      location |-> LocationOf(r.e),
      salary_id |-> r.s,
      base_salary |-> IF IsNull(r.s) THEN NULL ELSE Some(salary[Val(r.s)].base_salary),
      bonus |-> IF IsNull(r.s) THEN NULL ELSE salary[Val(r.s)].bonus,
      total_compensation |->
          IF IsNull(r.s) THEN NULL ELSE TotalCompensation(Val(r.s))] :
     r \in EmployeeSalaryJoin(employee_id)}

(***************************************************************************)
(* The top-earners selection of show_analytics:                            *)
(* salaries_df.nlargest(5, 'total_compensation').                          *)
(***************************************************************************)
\* The dtype pandas.read_sql_query gives the column: float64 (NULL read as NaN)
\* when some row holds a number, object when the frame is empty or every
\* value is NULL.
ColumnDtype(frame) ==
    IF \E i \in DOMAIN frame : ~IsNull(frame[i].total_compensation)
    THEN "float64" ELSE "object"

\* DataFrame.nlargest refuses a column that is not numeric with a TypeError
NLargestRaises(frame) == ColumnDtype(frame) # "float64"

\* DataFrame.nlargest(n, column), keep='first': the n rows with the greatest
\* values, greatest first, equal values in the order of the frame, NaN last
RECURSIVE SelectLargest(_, _, _)
SelectLargest(n, frame, left) ==
    IF n = 0 \/ left = {} THEN <<>>
    ELSE LET best == CHOOSE i \in left : \A j \in left :
                        \/ Rank(frame[i].total_compensation) >
                               Rank(frame[j].total_compensation)
                        \/ /\ Rank(frame[i].total_compensation) =
                                  Rank(frame[j].total_compensation)
                           /\ i <= j
         IN  <<frame[best]>> \o SelectLargest(n - 1, frame, left \ {best})

NLargest(n, frame) == SelectLargest(n, frame, DOMAIN frame)

(***************************************************************************)
(* The operations.  A call is one step: the connection is opened, the      *)
(* statement runs, and the connection is closed when the statement did     *)
(* not raise.                                                              *)
(***************************************************************************)
QueryOps == {"get_all_employees", "get_all_salaries", "get_all_departments",
             "get_department_salary_stats", "get_employee_by_id"}

\* the identities a lookup is tried with: those in use and one never in use
LookupIds == EmployeeIds \cup {Cardinality(EmployeeIds) + 1}

NoCall == [op |-> "none", arg |-> 0, outcome |-> "none", rows |-> <<>>, roster |-> <<>>]

Returned(op, arg, rows) ==
    [op |-> op, arg |-> arg, outcome |-> "ok", rows |-> rows, roster |-> <<>>]

Raised(op, arg, error) ==
    [op |-> op, arg |-> arg, outcome |-> error, rows |-> <<>>, roster |-> <<>>]

\* os.path.exists("employee_database.db")
check_database_exists == dbFile # "missing"

\* get_connection: sqlite3.connect(DB_PATH) opens the file and creates it,
\* with no table in it, when it does not exist
get_connection == IF dbFile = "missing" THEN "empty" ELSE dbFile

\* pd.read_sql_query raises DatabaseError (no such table) unless the tables exist
StatementRuns == dbFile = "ready"

\* conn = get_connection(); df = pd.read_sql_query(...); conn.close(); return df
\* The statement's exception leaves the function before conn.close().
RunQuery(op, arg, results) ==
    /\ dbFile' = get_connection
    /\ IF StatementRuns
       THEN /\ \E rows \in results : call' = Returned(op, arg, rows)
            /\ openConns' = openConns + 1 - 1
       ELSE /\ openConns < MaxLeaked
            /\ call' = Raised(op, arg, "DatabaseError")
            /\ openConns' = openConns + 1
    /\ UNCHANGED relations

get_all_employees ==
    RunQuery("get_all_employees", 0,
             OrdersDesc(EmployeeRows, [r \in EmployeeRows |-> 0 - r.employee_id]))

get_all_salaries ==
    RunQuery("get_all_salaries", 0,
             OrdersDesc(SalaryRows, [r \in SalaryRows |-> Rank(r.total_compensation)]))

get_all_departments ==
    RunQuery("get_all_departments", 0,
             OrdersDesc(DepartmentRows, [r \in DepartmentRows |-> r.employee_count]))

get_department_salary_stats ==
    RunQuery("get_department_salary_stats", 0,
             OrdersDesc(DepartmentStatsRows,
                        [r \in DepartmentStatsRows |-> Rank(r.avg_total_compensation)]))

get_employee_by_id ==
    \E employee_id \in LookupIds :
        RunQuery("get_employee_by_id", employee_id,
                 AnyOrder(EmployeeDetailRows(employee_id)))

\* show_analytics: salaries_df = get_all_salaries(), dept_stats_df =
\* get_department_salary_stats() (drawn as charts), then the top earners of
\* salaries_df.  The first query's exception ends the page.
show_analytics ==
    /\ dbFile' = get_connection
    /\ IF StatementRuns
       THEN /\ \E roster \in OrdersDesc(SalaryRows,
                       [r \in SalaryRows |-> Rank(r.total_compensation)]) :
                call' = [op |-> "show_analytics", arg |-> TopN,
                         outcome |-> IF NLargestRaises(roster) THEN "TypeError" ELSE "ok",
                         rows |-> IF NLargestRaises(roster) THEN <<>>
                                  ELSE NLargest(TopN, roster),
                         roster |-> roster]
            /\ openConns' = openConns + 1 - 1 + 1 - 1
       ELSE /\ openConns < MaxLeaked
            /\ call' = Raised("show_analytics", TopN, "DatabaseError")
            /\ openConns' = openConns + 1
    /\ UNCHANGED relations

Init ==
    /\ dbFile \in {"missing", "ready"}
    /\ IF dbFile = "ready"
       THEN /\ department \in DepartmentTables
            /\ employee \in EmployeeTables
            /\ salary \in SalaryTables
       ELSE /\ department = NoTable
            /\ employee = NoTable
            /\ salary = NoTable
    /\ openConns = 0
    /\ call = NoCall

Next ==
    \/ get_all_employees
    \/ get_all_salaries
    \/ get_all_departments
    \/ get_department_salary_stats
    \/ get_employee_by_id
    \/ show_analytics

Spec == Init /\ [][Next]_vars

(***************************************************************************)
(* What the base relations hold, read off the relations themselves.        *)
(***************************************************************************)
EmployeesOf(d) == {e \in DOMAIN employee : employee[e].department_id = Some(d)}

SalariesOf(e) == {s \in DOMAIN salary : salary[s].employee_id = e}

Finished(op) == call.op = op /\ call.outcome = "ok"

DepartmentNamesDistinct ==
    \A d1, d2 \in DOMAIN department :
        department[d1].department_name = department[d2].department_name => d1 = d2

AggregatesUndefined(r) ==
    /\ IsNull(r.avg_total_compensation)
    /\ IsNull(r.total_compensation)
    /\ IsNull(r.min_compensation)
    /\ IsNull(r.max_compensation)

\* C1: after any sequence of calls, succeeded or failed, no connection opened
\* by a finished call is still open.
C1_ConnectionsReleased == openConns = 0

\* C2: for every department, the employee_count that
\* get_department_salary_stats reports under the department's name is the
\* number of employee records referencing the department, whatever number of
\* salary records those employees have.  Stated where no two departments
\* share a name, so that a row stands for one department.
C2_StatsEmployeeCount ==
    (Finished("get_department_salary_stats") /\ DepartmentNamesDistinct) =>
        \A d \in DOMAIN department :
            \E i \in DOMAIN call.rows :
                /\ call.rows[i].department_name = department[d].department_name
                /\ call.rows[i].employee_count = Cardinality(EmployeesOf(d))

\* C3: get_department_salary_stats returns exactly one row per department
\* record, and no row stands for two departments.
C3_StatsOneRowPerDepartment ==
    Finished("get_department_salary_stats") =>
        /\ Len(call.rows) = Cardinality(DOMAIN department)
        /\ \A i \in DOMAIN call.rows :
               Cardinality({d \in DOMAIN department :
                   department[d].department_name = call.rows[i].department_name}) = 1

\* C4: in get_department_salary_stats a department with employees and no
\* salary record is reported with employee_count > 0 and avg, sum, min and max
\* NULL; a department with no employee is reported with employee_count = 0
\* and the four aggregates NULL.
C4_StatsUndefinedAggregates ==
    Finished("get_department_salary_stats") =>
        \A d \in DOMAIN department :
            (\A e \in EmployeesOf(d) : SalariesOf(e) = {}) =>
                \E i \in DOMAIN call.rows :
                    /\ call.rows[i].department_name = department[d].department_name
                    /\ AggregatesUndefined(call.rows[i])
                    /\ IF EmployeesOf(d) = {}
                       THEN call.rows[i].employee_count = 0
                       ELSE call.rows[i].employee_count > 0

\* C5: get_all_departments returns exactly one row per department, each with
\* the number of employees referencing the department, 0 when there is none.
C5_DepartmentRoster ==
    Finished("get_all_departments") =>
        /\ Len(call.rows) = Cardinality(DOMAIN department)
        /\ \A d \in DOMAIN department :
               \E i \in DOMAIN call.rows :
                   /\ call.rows[i].department_id = d
                   /\ call.rows[i].department_name = department[d].department_name
                   /\ call.rows[i].employee_count = Cardinality(EmployeesOf(d))

\* C5's case: a department with no employee beside one with employees.
C5_Witness ==
    /\ Finished("get_all_departments")
    /\ \E d \in DOMAIN department : EmployeesOf(d) = {}
    /\ \E d \in DOMAIN department : EmployeesOf(d) # {}
    /\ \E i \in DOMAIN call.rows : call.rows[i].employee_count = 0

C7_SalaryRoster ==
    Finished("get_all_salaries") =>
        /\ \A s \in DOMAIN salary :
               Cardinality({i \in DOMAIN call.rows : call.rows[i].salary_id = s}) =
                   IF salary[s].employee_id \in DOMAIN employee THEN 1 ELSE 0
        /\ \A i \in DOMAIN call.rows :
               LET r == call.rows[i]
               IN  /\ r.salary_id \in DOMAIN salary
                   /\ r.employee_id = salary[r.salary_id].employee_id
                   /\ r.base_salary = salary[r.salary_id].base_salary
                   /\ r.bonus = salary[r.salary_id].bonus
                   /\ r.total_compensation =
                          IF r.bonus = NULL THEN NULL
                          ELSE Some(r.base_salary + Val(r.bonus))
        /\ \A i, j \in DOMAIN call.rows :
               (i < j /\ ~IsNull(call.rows[j].total_compensation)) =>
                   /\ ~IsNull(call.rows[i].total_compensation)
                   /\ Val(call.rows[i].total_compensation) >=
                          Val(call.rows[j].total_compensation)

\* C7's case: a salary record of an employee without department is listed
\* beside a salary record whose employee does not exist.
C7_Witness ==
    /\ Finished("get_all_salaries")
    /\ \E s \in DOMAIN salary : salary[s].employee_id \notin DOMAIN employee
    /\ \E i \in DOMAIN call.rows : IsNull(call.rows[i].department_name)

\* C8: with the tables in place, get_employee_by_id(id) returns no row and
\* raises nothing when no employee has the id; for an employee it returns one
\* row per salary record of the employee, and exactly one row with the salary
\* fields NULL when there is none, with or without a department.
C8_EmployeeLookup ==
    (call.op = "get_employee_by_id" /\ dbFile = "ready") =>
        /\ call.outcome = "ok"
        /\ \A i \in DOMAIN call.rows : call.rows[i].employee_id = call.arg
        /\ IF call.arg \notin DOMAIN employee THEN call.rows = <<>>
           ELSE IF SalariesOf(call.arg) = {}
           THEN /\ Len(call.rows) = 1
                /\ IsNull(call.rows[1].salary_id)
                /\ IsNull(call.rows[1].base_salary)
                /\ IsNull(call.rows[1].bonus)
                /\ IsNull(call.rows[1].total_compensation)
           ELSE /\ Len(call.rows) = Cardinality(SalariesOf(call.arg))
                /\ \A s \in SalariesOf(call.arg) :
                       \E i \in DOMAIN call.rows :
                           /\ call.rows[i].salary_id = Some(s)
                           /\ call.rows[i].base_salary = Some(salary[s].base_salary)
                           /\ call.rows[i].bonus = salary[s].bonus

\* C8's case: the lookup of an employee with no department and no salary
\* record, in a data source that holds salary records of others.
C8_Witness ==
    /\ Finished("get_employee_by_id")
    /\ call.arg \in DOMAIN employee
    /\ IsNull(employee[call.arg].department_id)
    /\ SalariesOf(call.arg) = {}
    /\ DOMAIN salary # {}
    /\ Len(call.rows) = 1

\* C9: with the tables in place, the top-N selection raises nothing and
\* returns the first min(N, number of roster rows) rows of the salary roster
\* in the roster's order; a roster of N rows or fewer is returned whole.
C9_TopEarners ==
    (call.op = "show_analytics" /\ dbFile = "ready") =>
        /\ call.outcome = "ok"
        /\ call.rows = SubSeq(call.roster, 1,
                              IF Len(call.roster) < TopN THEN Len(call.roster) ELSE TopN)

\* The selection on a roster whose total_compensation column is numeric: the
\* first min(N, number of rows) rows of the roster, in the roster's order.
TopEarnersOfNumericRoster ==
    (call.op = "show_analytics" /\ dbFile = "ready" /\
     ColumnDtype(call.roster) = "float64") =>
        /\ call.outcome = "ok"
        /\ call.rows = SubSeq(call.roster, 1,
                              IF Len(call.roster) < TopN THEN Len(call.roster) ELSE TopN)

\* a roster longer than N was cut
TopEarnersCut ==
    /\ call.op = "show_analytics"
    /\ call.outcome = "ok"
    /\ Len(call.roster) > TopN
    /\ Len(call.rows) = TopN

\* C10: every call leaves the data source as it found it, the database file
\* (missing or not) and the three relations.
C10_DataSourceUnchanged ==
    [][/\ dbFile' = dbFile
       /\ check_database_exists' = check_database_exists
       /\ relations' = relations]_vars

====
